---- MODULE Spec2Model ----
(***************************************************************************)
(* Model of src/main.py: the narrated-video pipeline.                      *)
(*                                                                         *)
(* Strings are sequences of one-character strings.  Times are integers in  *)
(* units of 1/16000 s: the times entering the model are multiples of       *)
(* 1/16 s (dyadic values, on which Python's float arithmetic of lines      *)
(* 104-105 and 344-346 is exact) and decoded subtitle times are multiples  *)
(* of 1 ms.                                                                *)
(* The glyph of emoji_map is written "SHEEP" and its reading               *)
(* "hi","tsu","ji".                                                        *)
(***************************************************************************)
EXTENDS Integers, Sequences, FiniteSets, TLC

VARIABLES
    numScripts,    \* main: len(script_files)
    images,        \* number of valid image files in IMAGES_DIR
    pc,            \* position of the code; where it stopped once status is not "running"
    status,        \* "running", "done", "exit1" (sys.exit(1)), "crashed" (uncaught exception)
    script,        \* main: 1-based position of the loop over script_files
    lines,         \* process_script: chunks read from the current script
    i,             \* process_script: loop index over lines
    current_time,  \* process_script: running clock
    srt_entries,   \* process_script: <<start, end, text>> entries
    probe_log,     \* what ffprobe printed for each chunk measured so far
    texts,         \* directory texts/: <<i, content>> of text_chunk_<i>.txt
    query,         \* directory query/: indices of query_<i>.json
    wav,           \* directory wav/: indices of audio_<i>.wav
    generated_srt, \* content of generated.srt, or NoFile
    file_list,     \* content of file_list.txt, or NoFile
    final_audio,   \* final_audio.mp3: the files it concatenates, or NoFile
    wav_files,     \* merge_audio_files: the sorted listing
    segments,      \* process_video / parse_srt result
    vertical,      \* process_video: the framing being assembled
    seg_i,         \* process_video: loop index over segments
    files,         \* video files that exist (paths)
    calls          \* external calls made so far: <<script, kind, index>>

vars == <<numScripts, images, pc, status, script, lines, i, current_time,
          srt_entries, probe_log, texts, query, wav, generated_srt, file_list,
          final_audio, wav_files, segments, vertical, seg_i, files, calls>>

\* a file is the set of its content: empty when the file does not exist
NoFile == {}
File(c) == {c}
Content(f) == CHOOSE c \in f : TRUE

(***************************************************************************)
(* Bounds of the model.                                                    *)
(***************************************************************************)
MaxScripts == 2      \* scripts in inputs/
MaxLines == 2        \* raw lines of one script
MaxImages == 2       \* images in images/
MaxEntries == 2      \* entries of an encode/decode round trip
MaxIndex == 10       \* largest chunk index of an audio artifact listed alone
MaxFiles == 3        \* audio artifacts in a directory listed alone

UnitsPerSec == 16 * 1000
UnitsPerMs == UnitsPerSec \div 1000

(***************************************************************************)
(* Python string primitives.                                               *)
(***************************************************************************)
DigitChars == <<"0", "1", "2", "3", "4", "5", "6", "7", "8", "9">>

IsDigit(c) == \E d \in 1..10 : DigitChars[d] = c

DigitVal(c) == (CHOOSE d \in 1..10 : DigitChars[d] = c) - 1

\* str(n) / f"{n}" for n >= 0
RECURSIVE DecStr(_)
DecStr(n) ==
    IF n < 10 THEN <<DigitChars[n + 1]>>
    ELSE DecStr(n \div 10) \o <<DigitChars[(n % 10) + 1]>>

\* f"{n:0<w>d}" applied to the digits s
RECURSIVE ZeroPad(_, _)
ZeroPad(s, w) == IF Len(s) >= w THEN s ELSE ZeroPad(<<"0">> \o s, w)

\* int(s) for a digit string s
RECURSIVE IntOf(_)
IntOf(s) ==
    IF Len(s) = 0 THEN 0
    ELSE 10 * IntOf(SubSeq(s, 1, Len(s) - 1)) + DigitVal(s[Len(s)])

\* str.isspace() of one character (the whitespace of the model's alphabet:
\* space, line feed, form feed)
IsSpace(c) == c \in {" ", "\n", "\f"}

\* characters str.splitlines() breaks at (of the model's alphabet: line feed
\* and form feed; reading a file line by line, lines 199-200, breaks only at
\* the line feed)
IsLineBreak(c) == c \in {"\n", "\f"}

RECURSIVE LStrip(_)
LStrip(s) ==
    IF Len(s) > 0 /\ IsSpace(s[1]) THEN LStrip(Tail(s)) ELSE s

RECURSIVE RStrip(_)
RStrip(s) ==
    IF Len(s) > 0 /\ IsSpace(s[Len(s)]) THEN RStrip(SubSeq(s, 1, Len(s) - 1)) ELSE s

\* str.strip()
Strip(s) == LStrip(RStrip(s))

\* position of the first c in s at or after p, 0 when there is none
RECURSIVE Find(_, _, _)
Find(s, c, p) ==
    IF p > Len(s) THEN 0
    ELSE IF s[p] = c THEN p
    ELSE Find(s, c, p + 1)

\* str.split(c) for a one-character separator
RECURSIVE SplitChar(_, _)
SplitChar(s, c) ==
    LET p == Find(s, c, 1)
    IN IF p = 0 THEN <<s>>
       ELSE <<SubSeq(s, 1, p - 1)>> \o SplitChar(SubSeq(s, p + 1, Len(s)), c)

\* str.splitlines(): no empty last line after a final line break
RECURSIVE SplitLines(_)
SplitLines(s) ==
    IF Len(s) = 0 THEN <<>>
    ELSE LET brk == {p \in 1..Len(s) : IsLineBreak(s[p])}
         IN IF brk = {} THEN <<s>>
            ELSE LET p == CHOOSE q \in brk : \A r \in brk : q <= r
                 IN <<SubSeq(s, 1, p - 1)>> \o SplitLines(SubSeq(s, p + 1, Len(s)))

\* sep.join(parts)
RECURSIVE Join(_, _)
Join(parts, sep) ==
    IF Len(parts) = 0 THEN <<>>
    ELSE IF Len(parts) = 1 THEN parts[1]
    ELSE parts[1] \o sep \o Join(Tail(parts), sep)

\* str.replace(c, r) for a one-character c and a string r
RECURSIVE Replace(_, _, _)
Replace(s, c, r) ==
    IF Len(s) = 0 THEN <<>>
    ELSE (IF s[1] = c THEN r ELSE <<s[1]>>) \o Replace(Tail(s), c, r)

\* end of the whitespace run that starts at p (p - 1 when s[p] is no whitespace)
RECURSIVE SpaceRunEnd(_, _)
SpaceRunEnd(s, p) ==
    IF p <= Len(s) /\ IsSpace(s[p]) THEN SpaceRunEnd(s, p + 1) ELSE p - 1

\* re.split(r'\n\s*\n', s): the leftmost match starts at a line feed and,
\* \s* being greedy, ends at the last line feed of the whitespace run
RECURSIVE SplitBlankLines(_, _)
SplitBlankLines(s, p) ==
    IF p > Len(s) THEN <<s>>
    ELSE IF s[p] # "\n" THEN SplitBlankLines(s, p + 1)
    ELSE LET e == SpaceRunEnd(s, p)
             nl == {q \in (p + 1)..e : s[q] = "\n"}
         IN IF nl = {} THEN SplitBlankLines(s, p + 1)
            ELSE LET last == CHOOSE q \in nl : \A r \in nl : r <= q
                 IN <<SubSeq(s, 1, p - 1)>>
                    \o SplitBlankLines(SubSeq(s, last + 1, Len(s)), 1)

(***************************************************************************)
(* Subtitle encoder: format_srt.                                           *)
(***************************************************************************)
\* time.strftime('%H:%M:%S', time.gmtime(t)): whole seconds, hours modulo a day
strftime_HMS(t) ==
    LET secs == t \div UnitsPerSec
    IN ZeroPad(DecStr((secs \div 3600) % 24), 2) \o <<":">>
       \o ZeroPad(DecStr((secs \div 60) % 60), 2) \o <<":">>
       \o ZeroPad(DecStr(secs % 60), 2)

\* a faulty variant: the millisecond remainder rounded up instead of truncated
MillisCeil(t) == ((t % UnitsPerSec) * 1000 + UnitsPerSec - 1) \div UnitsPerSec

\* int(t % 1 * 1000)
Millis(t) == ((t % UnitsPerSec) * 1000) \div UnitsPerSec

\* strftime(...) + f",{int(t % 1 * 1000):03d}"
srt_timestamp(t) == strftime_HMS(t) \o <<",">> \o ZeroPad(DecStr(Millis(t)), 3)

Arrow == <<" ", "-", "-", ">", " ">>

\* a faulty variant: the index line counts from 0
srt_block_zero_based(k, entry) ==
    DecStr(k - 1) \o <<"\n">>
    \o srt_timestamp(entry[1]) \o Arrow \o srt_timestamp(entry[2]) \o <<"\n">>
    \o entry[3] \o <<"\n", "\n">>

\* f"{i}\n{start_time} --> {end_time}\n{text}\n\n"
srt_block(k, entry) ==
    DecStr(k) \o <<"\n">>
    \o srt_timestamp(entry[1]) \o Arrow \o srt_timestamp(entry[2]) \o <<"\n">>
    \o entry[3] \o <<"\n", "\n">>

RECURSIVE format_srt_from(_, _)
format_srt_from(entries, k) ==
    IF k > Len(entries) THEN <<>>
    ELSE srt_block(k, entries[k]) \o format_srt_from(entries, k + 1)

format_srt(entries) == format_srt_from(entries, 1)

(***************************************************************************)
(* Subtitle decoder: srt_time_to_seconds, parse_srt.                       *)
(***************************************************************************)
\* \d{2}:\d{2}:\d{2},\d{3} at position p of s
IsTimestampAt(s, p) ==
    /\ p + 11 <= Len(s)
    /\ \A k \in {0, 1, 3, 4, 6, 7, 9, 10, 11} : IsDigit(s[p + k])
    /\ s[p + 2] = ":"
    /\ s[p + 5] = ":"
    /\ s[p + 8] = ","

\* re.match(r'(\d{2}:\d{2}:\d{2},\d{3})\s*-->\s*(\d{2}:\d{2}:\d{2},\d{3})', times):
\* the two groups, or <<>> when the line does not start with the pattern
TimecodeMatch(times) ==
    IF ~IsTimestampAt(times, 1) THEN <<>>
    ELSE LET a == SpaceRunEnd(times, 13) + 1
         IN IF ~(a + 2 <= Len(times) /\ SubSeq(times, a, a + 2) = <<"-", "-", ">">>)
            THEN <<>>
            ELSE LET b == SpaceRunEnd(times, a + 3) + 1
                 IN IF ~IsTimestampAt(times, b) THEN <<>>
                    ELSE <<SubSeq(times, 1, 12), SubSeq(times, b, b + 11)>>

\* re.split('[:,]', time_str)
RECURSIVE SplitTime(_)
SplitTime(s) ==
    LET cut == {p \in 1..Len(s) : s[p] \in {":", ","}}
    IN IF cut = {} THEN <<s>>
       ELSE LET p == CHOOSE q \in cut : \A r \in cut : q <= r
            IN <<SubSeq(s, 1, p - 1)>> \o SplitTime(SubSeq(s, p + 1, Len(s)))

\* int(hours) * 3600 + int(minutes) * 60 + int(seconds) + int(millis) / 1000.0
srt_time_to_seconds(time_str) ==
    LET parts == SplitTime(time_str)
    IN (IntOf(parts[1]) * 3600 + IntOf(parts[2]) * 60 + IntOf(parts[3])) * UnitsPerSec
       + IntOf(parts[4]) * UnitsPerMs

\* " ".join(lines[2:]).replace('"', '\\"')
SegmentText(text_lines) == Replace(Join(text_lines, <<" ">>), "\"", <<"\\", "\"">>)

\* the segments one block adds: none when it has under three lines or a bad timecode
parse_block(block) ==
    LET ls == SplitLines(Strip(block))
    IN IF Len(ls) < 3 THEN <<>>
       ELSE LET m == TimecodeMatch(Strip(ls[2]))
            IN IF m = <<>> THEN <<>>
               ELSE LET start == srt_time_to_seconds(m[1])
                        end == srt_time_to_seconds(m[2])
                    IN << [start |-> start, end |-> end, duration |-> end - start,
                           text |-> SegmentText(SubSeq(ls, 3, Len(ls)))] >>

RECURSIVE parse_blocks(_)
parse_blocks(blocks) ==
    IF Len(blocks) = 0 THEN <<>>
    ELSE parse_block(blocks[1]) \o parse_blocks(Tail(blocks))

parse_srt(content) == parse_blocks(SplitBlankLines(Strip(content), 1))

(***************************************************************************)
(* Helpers of the pipeline.                                                *)
(***************************************************************************)
\* a faulty variant: the text is returned as it came
preprocess_for_audio_identity(text) == text

\* emoji_map applied by text.replace(emoji, reading)
preprocess_for_audio(text) == Replace(text, "SHEEP", <<"hi", "tsu", "ji">>)

\* a faulty variant: the directory is created when missing but its content is kept
clear_directory_keep(dir) == dir

\* shutil.rmtree(path); os.makedirs(path): the content of the directory afterwards
clear_directory(dir) == {}

\* [line.strip() for line in f if line.strip()]
RECURSIVE read_script(_)
read_script(raw) ==
    IF Len(raw) = 0 THEN <<>>
    ELSE (IF Strip(raw[1]) # <<>> THEN <<Strip(raw[1])>> ELSE <<>>)
         \o read_script(Tail(raw))

\* a faulty variant: the empty result is not recognised
no_lines_never(ls) == FALSE

\* if not lines
no_lines(ls) == ls = <<>>

\* a faulty variant: check=False, the return code is ignored
subprocess_run_unchecked(returncode) == "returned"

\* subprocess.run(..., check=True): CalledProcessError on a non-zero return code
subprocess_run(returncode) == IF returncode # 0 THEN "raised" ELSE "returned"

\* a faulty variant: a probe failure falls back to one second
get_audio_duration_default(stdout) == IF stdout = <<>> THEN UnitsPerSec ELSE stdout[1]

\* float(result.stdout.strip()), 0.0 when that raises; stdout is <<>> (nothing
\* parsable printed) or <<d>> (the duration printed)
get_audio_duration(stdout) == IF stdout = <<>> THEN 0 ELSE stdout[1]

\* a faulty variant: the clock is not advanced
next_clock_stale(start_time, end_time) == start_time

\* current_time = end_time
next_clock(start_time, end_time) == end_time

\* f"wav/audio_{chunk_index}.wav"
audio_file(chunk_index) ==
    <<"w", "a", "v", "/", "a", "u", "d", "i", "o", "_">> \o DecStr(chunk_index)
    \o <<".", "w", "a", "v">>

\* os.path.basename(x)
RECURSIVE basename(_)
basename(x) ==
    LET p == Find(x, "/", 1)
    IN IF p = 0 THEN x ELSE basename(SubSeq(x, p + 1, Len(x)))

\* int(os.path.basename(x).split('_')[1].split('.')[0])
sort_key(x) == IntOf(SplitChar(SplitChar(basename(x), "_")[2], ".")[1])

\* code points of the characters of an audio file name, for plain string order
CharOrd(c) ==
    CASE c = "." -> 46
      [] c = "/" -> 47
      [] IsDigit(c) -> 48 + DigitVal(c)
      [] c = "_" -> 95
      [] c = "a" -> 97
      [] c = "d" -> 100
      [] c = "i" -> 105
      [] c = "o" -> 111
      [] c = "u" -> 117
      [] c = "v" -> 118
      [] c = "w" -> 119

RECURSIVE StrLess(_, _)
StrLess(x, y) ==
    IF Len(y) = 0 THEN FALSE
    ELSE IF Len(x) = 0 THEN TRUE
    ELSE IF x[1] = y[1] THEN StrLess(Tail(x), Tail(y))
    ELSE CharOrd(x[1]) < CharOrd(y[1])

\* a faulty variant: wav_files.sort() with no key, the order of the names
key_before_lexicographic(x, y) == StrLess(x, y)

\* the order wav_files.sort(key=...) puts x strictly before y in
key_before(x, y) == sort_key(x) < sort_key(y)

RECURSIVE Insert(_, _)
Insert(sorted, x) ==
    IF Len(sorted) = 0 THEN <<x>>
    ELSE IF key_before(x, sorted[1]) THEN <<x>> \o sorted
    ELSE <<sorted[1]>> \o Insert(Tail(sorted), x)

\* list.sort(key=...): stable
RECURSIVE SortFiles(_)
SortFiles(l) ==
    IF Len(l) = 0 THEN <<>>
    ELSE Insert(SortFiles(SubSeq(l, 1, Len(l) - 1)), l[Len(l)])

\* the orders glob.glob("wav/audio_*.wav") can list the directory in
Listings(dir) ==
    {[k \in 1..Cardinality(dir) |-> audio_file(f[k])] :
        f \in {g \in [1..Cardinality(dir) -> dir] :
                  \A a, b \in 1..Cardinality(dir) : a # b => g[a] # g[b]}}

\* a faulty variant: the comparison is off by one
too_few_images_lenient(segs, n) == Len(segs) > n + 1

\* len(segments) > len(image_files)
too_few_images(segs, n) == Len(segs) > n

\* file paths: <<directory, script or segment number, name>>
landscape_dest(k) == <<"output/landscape", k, "landscape.mp4">>
vertical_dest(k) == <<"output/vertical", k, "vertical.mp4">>

\* a faulty variant: the landscape video is assembled in place
landscape_output_in_place(k) == landscape_dest(k)

\* landscape_output_temp = "final_output_landscape.mp4"
landscape_output_temp(k) == <<"cwd", 0, "final_output_landscape.mp4">>

\* vertical_output_temp = "final_output_vertical.mp4"
vertical_output_temp(k) == <<"cwd", 0, "final_output_vertical.mp4">>

segment_filename(k) == <<"cwd", k, "segment.mp4">>
concat_list == <<"cwd", 0, "segments.txt">>
concat_video == <<"cwd", 0, "temp_video.mp4">>
video_audio == <<"cwd", 0, "video_with_audio.mp4">>

\* shutil.move(src, dst)
Move(fs, src, dst) == (fs \ {src}) \cup {dst}

\* open(f, "w").write(c) in a directory kept as a set of <<index, content>>
WriteFile(dir, f, c) == {e \in dir : e[1] # f} \cup {<<f, c>>}

(***************************************************************************)
(* Inputs of the environment.                                              *)
(***************************************************************************)
\* raw lines of a script file: blank, plain with whitespace to strip, with the
\* glyph and a double quote
RawLines == {<<" ">>, <<"a", " ">>, <<"SHEEP", "\"">>}

SeqsUpTo(S, n) == UNION {[1..k -> S] : k \in 0..n}

\* contents of a .txt script
ScriptContents == SeqsUpTo(RawLines, MaxLines)

\* the length of the audio the TTS backend returns for a text: 2.0 s for the
\* text with the reading of the glyph, 1.5 s for the other one
SpokenDuration(text) ==
    IF \E k \in 1..Len(text) : text[k] = "hi"
    THEN 2 * UnitsPerSec
    ELSE (3 * UnitsPerSec) \div 2

\* stdout of ffprobe for the audio of a text: nothing parsable, or its duration
ProbeOutputs(text) == {<<>>, <<SpokenDuration(text)>>}

\* return codes of curl and ffmpeg: success, or a failure
ReturnCodes == {0, 1}

Call(kind, k) == <<script, kind, k>>

(***************************************************************************)
(* main and process_script.                                                *)
(***************************************************************************)
\* main, lines 390-399: sys.exit(1) when inputs/ holds no .txt file
MainStart ==
    /\ status = "running"
    /\ pc = "main"
    /\ IF numScripts = 0
       THEN /\ status' = "exit1"
            /\ UNCHANGED pc
            /\ UNCHANGED script
       ELSE /\ script' = 1
            /\ pc' = "process_script"
            /\ UNCHANGED status
    /\ UNCHANGED <<numScripts, images, lines, i, current_time, srt_entries, probe_log, texts,
                   query, wav, generated_srt, file_list, final_audio, wav_files,
                   segments, vertical, seg_i, files, calls>>

\* process_script, lines 323-336: clear the working directories, read the script;
\* with no chunk the function returns and its locals are gone
ProcessScriptBegin ==
    /\ status = "running"
    /\ pc = "process_script"
    /\ \E raw \in ScriptContents :
         LET ls == read_script(raw)
         IN IF no_lines(ls)
            THEN /\ pc' = "next_script"
                 /\ lines' = <<>>
                 /\ UNCHANGED <<srt_entries, probe_log, current_time, i>>
            ELSE /\ pc' = IF Len(ls) > 0 THEN "tts" ELSE "srt"
                 /\ lines' = ls
                 /\ srt_entries' = <<>>
                 /\ probe_log' = <<>>
                 /\ current_time' = 0
                 /\ i' = 0
    /\ texts' = clear_directory(texts)
    /\ query' = clear_directory(query)
    /\ wav' = clear_directory(wav)
    /\ UNCHANGED <<numScripts, images, status, script, generated_srt, file_list,
                   final_audio, wav_files, segments, vertical, seg_i, files, calls>>

\* generate_audio_chunk(preprocess_for_audio(line), SPEAKER_ID, i), lines 341-342
GenerateAudioChunk ==
    /\ status = "running"
    /\ pc = "tts"
    /\ texts' = WriteFile(texts, i, preprocess_for_audio(lines[i + 1]))
    /\ \E rc_query, rc_synthesis \in ReturnCodes :
         IF subprocess_run(rc_query) = "raised"
         THEN /\ calls' = calls \cup {Call("audio_query", i)}
              /\ status' = "crashed"
              /\ UNCHANGED pc
              /\ UNCHANGED <<query, wav>>
         ELSE /\ query' = IF rc_query = 0 THEN query \cup {i} ELSE query
              /\ calls' = calls \cup {Call("audio_query", i), Call("synthesis", i)}
              /\ IF subprocess_run(rc_synthesis) = "raised"
                 THEN /\ status' = "crashed"
                      /\ UNCHANGED pc
                      /\ UNCHANGED wav
                 ELSE /\ wav' = IF rc_query = 0 /\ rc_synthesis = 0
                                THEN wav \cup {i} ELSE wav
                      /\ pc' = "probe"
                      /\ UNCHANGED status
    /\ UNCHANGED <<numScripts, images, script, lines, i, current_time, srt_entries, probe_log,
                   generated_srt, file_list, final_audio, wav_files, segments,
                   vertical, seg_i, files>>

\* lines 343-348: measure the chunk, append its entry, advance the clock
ProbeAndAccumulate ==
    /\ status = "running"
    /\ pc = "probe"
    /\ \E stdout \in ProbeOutputs(preprocess_for_audio(lines[i + 1])) :
         /\ (stdout # <<>>) => i \in wav
         /\ LET duration == get_audio_duration(stdout)
                start_time == current_time
                end_time == start_time + duration
            IN /\ current_time' = next_clock(start_time, end_time)
               /\ srt_entries' = Append(srt_entries, <<start_time, end_time, lines[i + 1]>>)
         /\ probe_log' = Append(probe_log, stdout)
    /\ calls' = calls \cup {Call("ffprobe", i)}
    /\ i' = i + 1
    /\ pc' = IF i + 1 < Len(lines) THEN "tts" ELSE "srt"
    /\ UNCHANGED <<numScripts, images, status, script, lines, texts, query, wav,
                   generated_srt, file_list, final_audio, wav_files, segments,
                   vertical, seg_i, files>>

\* lines 350-353: format_srt and save_srt
SaveSrt ==
    /\ status = "running"
    /\ pc = "srt"
    /\ generated_srt' = File(format_srt(srt_entries))
    /\ pc' = "merge"
    /\ UNCHANGED <<numScripts, images, status, script, lines, i, current_time,
                   srt_entries, probe_log, texts, query, wav, file_list, final_audio, wav_files,
                   segments, vertical, seg_i, files, calls>>

\* merge_audio_files, lines 116-126: list, sort, return when empty, write the manifest
MergeAudioList ==
    /\ status = "running"
    /\ pc = "merge"
    /\ \E listing \in Listings(wav) :
         LET sorted == SortFiles(listing)
         IN /\ wav_files' = sorted
            /\ IF sorted = <<>>
               THEN /\ pc' = "images"
                    /\ UNCHANGED file_list
               ELSE /\ pc' = "merge_ffmpeg"
                    /\ file_list' = File(sorted)
    /\ UNCHANGED <<numScripts, images, status, script, lines, i, current_time,
                   srt_entries, probe_log, texts, query, wav, generated_srt, final_audio,
                   segments, vertical, seg_i, files, calls>>

\* merge_audio_files, lines 128-134: the concat encoder call, then os.remove(list_file)
MergeAudioEncode ==
    /\ status = "running"
    /\ pc = "merge_ffmpeg"
    /\ calls' = calls \cup {Call("ffmpeg_concat_audio", 0)}
    /\ \E rc \in ReturnCodes :
         IF subprocess_run(rc) = "raised"
         THEN /\ status' = "crashed"
              /\ UNCHANGED pc
              /\ UNCHANGED <<final_audio, file_list>>
         ELSE /\ final_audio' = IF rc = 0 THEN file_list ELSE final_audio
              /\ file_list' = NoFile
              /\ pc' = "images"
              /\ UNCHANGED status
    /\ UNCHANGED <<numScripts, images, script, lines, i, current_time, srt_entries, probe_log,
                   texts, query, wav, generated_srt, wav_files, segments, vertical,
                   seg_i, files>>

\* process_script, lines 359-368: the image list, sys.exit(1) when there is none
ListImages ==
    /\ status = "running"
    /\ pc = "images"
    /\ IF images = 0
       THEN /\ status' = "exit1"
            /\ UNCHANGED pc
            /\ UNCHANGED vertical
       ELSE /\ vertical' = FALSE
            /\ pc' = "pv_parse"
            /\ UNCHANGED status
    /\ UNCHANGED <<numScripts, images, script, lines, i, current_time, srt_entries, probe_log,
                   texts, query, wav, generated_srt, file_list, final_audio,
                   wav_files, segments, seg_i, files, calls>>

(***************************************************************************)
(* process_video and run_ffmpeg.                                           *)
(***************************************************************************)
\* run_ffmpeg, lines 48-51: sys.exit(1) on a non-zero return code
run_ffmpeg(returncode) == IF returncode # 0 THEN "exit" ELSE "returned"

\* output_video of the current call of process_video, lines 371-376
output_video ==
    IF vertical THEN vertical_output_temp(script) ELSE landscape_output_temp(script)

\* process_video, lines 212-242: parse the subtitle track, check the images
ProcessVideoBegin ==
    /\ status = "running"
    /\ pc = "pv_parse"
    /\ LET segs == parse_srt(Content(generated_srt))
       IN /\ segments' = segs
          /\ IF segs = <<>> \/ too_few_images(segs, images)
             THEN /\ status' = "exit1"
                  /\ UNCHANGED pc
             ELSE /\ pc' = "pv_segment"
                  /\ UNCHANGED status
    /\ seg_i' = 0
    /\ UNCHANGED <<numScripts, images, script, lines, i, current_time, srt_entries, probe_log,
                   texts, query, wav, generated_srt, file_list, final_audio,
                   wav_files, vertical, files, calls>>

\* process_video, lines 246-262: one still-image segment; image_files[i] raises
\* IndexError past the end of the list
EncodeSegment ==
    /\ status = "running"
    /\ pc = "pv_segment"
    /\ IF seg_i >= images
       THEN /\ status' = "crashed"
            /\ UNCHANGED pc
            /\ UNCHANGED <<seg_i, files, calls>>
       ELSE /\ calls' = calls \cup {Call("ffmpeg_segment", seg_i)}
            /\ \E rc \in ReturnCodes :
                 IF run_ffmpeg(rc) = "exit"
                 THEN /\ status' = "exit1"
                      /\ UNCHANGED pc
                      /\ UNCHANGED <<seg_i, files>>
                 ELSE /\ files' = files \cup {segment_filename(seg_i)}
                      /\ seg_i' = seg_i + 1
                      /\ pc' = IF seg_i + 1 < Len(segments) THEN "pv_segment"
                               ELSE "pv_concat"
                      /\ UNCHANGED status
    /\ UNCHANGED <<numScripts, images, script, lines, i, current_time, srt_entries, probe_log,
                   texts, query, wav, generated_srt, file_list, final_audio,
                   wav_files, segments, vertical>>

\* process_video, lines 264-279: the manifest of the segments and their concatenation
ConcatSegments ==
    /\ status = "running"
    /\ pc = "pv_concat"
    /\ calls' = calls \cup {Call("ffmpeg_concat_video", 0)}
    /\ \E rc \in ReturnCodes :
         IF run_ffmpeg(rc) = "exit"
         THEN /\ status' = "exit1"
              /\ UNCHANGED pc
              /\ files' = files \cup {concat_list}
         ELSE /\ files' = files \cup {concat_list, concat_video}
              /\ pc' = "pv_mix"
              /\ UNCHANGED status
    /\ UNCHANGED <<numScripts, images, script, lines, i, current_time, srt_entries, probe_log,
                   texts, query, wav, generated_srt, file_list, final_audio,
                   wav_files, segments, vertical, seg_i>>

\* process_video, lines 281-296: narration and background music mixed in; the
\* encoder fails when the narration track does not exist
MixAudio ==
    /\ status = "running"
    /\ pc = "pv_mix"
    /\ calls' = calls \cup {Call("ffmpeg_mix", 0)}
    /\ \E rc \in ReturnCodes :
         /\ (final_audio = NoFile) => rc # 0
         /\ IF run_ffmpeg(rc) = "exit"
            THEN /\ status' = "exit1"
                 /\ UNCHANGED pc
                 /\ UNCHANGED files
            ELSE /\ files' = files \cup {video_audio}
                 /\ pc' = "pv_burn"
                 /\ UNCHANGED status
    /\ UNCHANGED <<numScripts, images, script, lines, i, current_time, srt_entries, probe_log,
                   texts, query, wav, generated_srt, file_list, final_audio,
                   wav_files, segments, vertical, seg_i>>

\* process_video, lines 298-314: subtitles burnt in, the temporary files removed;
\* back in process_script the other framing or the relocation follows
BurnSubtitles ==
    /\ status = "running"
    /\ pc = "pv_burn"
    /\ calls' = calls \cup {Call("ffmpeg_subtitles", 0)}
    /\ \E rc \in ReturnCodes :
         IF run_ffmpeg(rc) = "exit"
         THEN /\ status' = "exit1"
              /\ UNCHANGED pc
              /\ UNCHANGED <<files, vertical>>
         ELSE /\ files' = ((files \cup {output_video})
                            \ ({segment_filename(k) : k \in 0..(Len(segments) - 1)}
                               \cup {concat_list, concat_video, video_audio}))
              /\ vertical' = TRUE
              /\ pc' = IF vertical THEN "move_landscape" ELSE "pv_parse"
              /\ UNCHANGED status
    /\ UNCHANGED <<numScripts, images, script, lines, i, current_time, srt_entries, probe_log,
                   texts, query, wav, generated_srt, file_list, final_audio,
                   wav_files, segments, seg_i>>

\* process_script, line 383: shutil.move(landscape_output_temp, landscape_dest)
MoveLandscape ==
    /\ status = "running"
    /\ pc = "move_landscape"
    /\ files' = Move(files, landscape_output_temp(script), landscape_dest(script))
    /\ pc' = "move_vertical"
    /\ UNCHANGED <<numScripts, images, status, script, lines, i, current_time,
                   srt_entries, probe_log, texts, query, wav, generated_srt, file_list,
                   final_audio, wav_files, segments, vertical, seg_i, calls>>

\* process_script, lines 384-385: shutil.move(vertical_output_temp, vertical_dest);
\* the function returns and its locals are gone
MoveVertical ==
    /\ status = "running"
    /\ pc = "move_vertical"
    /\ files' = Move(files, vertical_output_temp(script), vertical_dest(script))
    /\ pc' = "next_script"
    /\ lines' = <<>>
    /\ i' = 0
    /\ current_time' = 0
    /\ srt_entries' = <<>>
    /\ probe_log' = <<>>
    /\ wav_files' = <<>>
    /\ segments' = <<>>
    /\ vertical' = FALSE
    /\ seg_i' = 0
    /\ UNCHANGED <<numScripts, images, status, script, texts, query, wav,
                   generated_srt, file_list, final_audio, calls>>

\* main, lines 401-404: the next script of the batch, or the end of the run
NextScript ==
    /\ status = "running"
    /\ pc = "next_script"
    /\ IF script < numScripts
       THEN /\ script' = script + 1
            /\ pc' = "process_script"
            /\ UNCHANGED status
       ELSE /\ status' = "done"
            /\ UNCHANGED pc
            /\ UNCHANGED script
    /\ UNCHANGED <<numScripts, images, lines, i, current_time, srt_entries, probe_log, texts,
                   query, wav, generated_srt, file_list, final_audio, wav_files,
                   segments, vertical, seg_i, files, calls>>

(***************************************************************************)
(* The run of main over a batch of scripts.                                *)
(***************************************************************************)
Init ==
    /\ numScripts \in 0..MaxScripts
    /\ images \in 0..MaxImages
    /\ status = "running"
    /\ pc = "main"
    /\ status = "running"
    /\ script = 0
    /\ lines = <<>>
    /\ i = 0
    /\ current_time = 0
    /\ srt_entries = <<>>
    /\ probe_log = <<>>
    /\ texts = {}
    /\ query = {}
    /\ wav = {}
    /\ generated_srt = NoFile
    /\ file_list = NoFile
    /\ final_audio = NoFile
    /\ wav_files = <<>>
    /\ segments = <<>>
    /\ vertical = FALSE
    /\ seg_i = 0
    /\ files = {}
    /\ calls = {}

Next ==
    \/ MainStart
    \/ ProcessScriptBegin
    \/ GenerateAudioChunk
    \/ ProbeAndAccumulate
    \/ SaveSrt
    \/ MergeAudioList
    \/ MergeAudioEncode
    \/ ListImages
    \/ ProcessVideoBegin
    \/ EncodeSegment
    \/ ConcatSegments
    \/ MixAudio
    \/ BurnSubtitles
    \/ MoveLandscape
    \/ MoveVertical
    \/ NextScript

Spec == Init /\ [][Next]_vars

(***************************************************************************)
(* merge_audio_files run alone on a working directory of any content.      *)
(***************************************************************************)
Idle ==
    /\ numScripts = 1
    /\ images = 1
    /\ status = "running"
    /\ script = 1
    /\ lines = <<>>
    /\ i = 0
    /\ current_time = 0
    /\ probe_log = <<>>
    /\ texts = {}
    /\ query = {}
    /\ file_list = NoFile
    /\ wav_files = <<>>
    /\ segments = <<>>
    /\ vertical = FALSE
    /\ seg_i = 0
    /\ files = {}
    /\ calls = {}

InitMerge ==
    /\ Idle
    /\ pc = "merge"
    /\ srt_entries = <<>>
    /\ generated_srt = NoFile
    /\ wav \in {d \in SUBSET (0..MaxIndex) : Cardinality(d) <= MaxFiles}
    /\ final_audio \in {NoFile, File(<<audio_file(0)>>)}

NextMerge ==
    \/ MergeAudioList
    \/ MergeAudioEncode

SpecMerge == InitMerge /\ [][NextMerge]_vars

(***************************************************************************)
(* format_srt and parse_srt applied to entries of any content.             *)
(***************************************************************************)
\* texts read_script can return: plain, with an inner space, with quotes, with
\* a backslash, with a form feed inside
SrtTexts ==
    { <<"a">>, <<"a", " ", "a">>, <<"\"">>, <<"a", "\"", "a", "\"">>, <<"\\">>,
      <<"a", "\f", "a">> }

\* <<start, end>>: zero, whole milliseconds, a sixteenth of a second, past 24 hours
SrtTimes ==
    { <<0, 0>>,
      <<(3 * UnitsPerSec) \div 2, (7 * UnitsPerSec) \div 2>>,
      <<UnitsPerSec \div 16, (3 * UnitsPerSec) \div 2>>,
      <<86400 * UnitsPerSec, 86400 * UnitsPerSec + (3 * UnitsPerSec) \div 2>> }

SrtEntries == {<<t[1], t[2], x>> : t \in SrtTimes, x \in SrtTexts}

InitSrt ==
    /\ Idle
    /\ pc = "encode"
    /\ srt_entries \in SeqsUpTo(SrtEntries, MaxEntries)
    /\ generated_srt = NoFile
    /\ wav = {}
    /\ final_audio = NoFile

\* format_srt(entries) saved by save_srt
EncodeSrt ==
    /\ pc = "encode"
    /\ generated_srt' = File(format_srt(srt_entries))
    /\ pc' = "decode"
    /\ UNCHANGED <<numScripts, images, status, script, lines, i, current_time,
                   srt_entries, probe_log, texts, query, wav, file_list, final_audio,
                   wav_files, segments, vertical, seg_i, files, calls>>

\* parse_srt of the saved file
DecodeSrt ==
    /\ pc = "decode"
    /\ segments' = parse_srt(Content(generated_srt))
    /\ pc' = "decoded"
    /\ UNCHANGED <<numScripts, images, status, script, lines, i, current_time,
                   srt_entries, probe_log, texts, query, wav, generated_srt, file_list,
                   final_audio, wav_files, vertical, seg_i, files, calls>>

NextSrt ==
    \/ EncodeSrt
    \/ DecodeSrt

SpecSrt == InitSrt /\ [][NextSrt]_vars

(***************************************************************************)
(* Properties.                                                             *)
(***************************************************************************)
\* the duration a chunk was measured at, from what ffprobe printed
Measured(stdout) == IF stdout = <<>> THEN 0 ELSE stdout[1]

\* the numbers of S in ascending order
RECURSIVE Ascending(_)
Ascending(S) ==
    IF S = {} THEN <<>>
    ELSE LET m == CHOOSE x \in S : \A y \in S : x <= y
         IN <<m>> \o Ascending(S \ {m})

VideoKinds == {"ffmpeg_segment", "ffmpeg_concat_video", "ffmpeg_mix", "ffmpeg_subtitles"}
EncoderKinds == VideoKinds \cup {"ffmpeg_concat_audio"}
Ended == status \in {"exit1", "crashed"}

\* C1: the entries built by the synthesis loop are contiguous: the first starts
\* at 0, each ends at its start plus the duration measured for its chunk, each
\* starts where its predecessor ends; there is one entry per chunk processed,
\* in chunk order.
TimelineContiguous ==
    /\ Len(probe_log) = Len(srt_entries)
    /\ pc \in {"tts", "probe"} => Len(srt_entries) = i
    /\ pc \in {"srt", "merge", "merge_ffmpeg", "images"} => Len(srt_entries) = Len(lines)
    /\ \A k \in 1..Len(srt_entries) :
         /\ srt_entries[k][1] = (IF k = 1 THEN 0 ELSE srt_entries[k - 1][2])
         /\ srt_entries[k][2] = srt_entries[k][1] + Measured(probe_log[k])
         /\ srt_entries[k][3] = lines[k]

\* C1 witness: two chunks of positive duration have been accumulated
TimelineTwoChunks ==
    /\ pc = "srt"
    /\ Len(srt_entries) = 2
    /\ srt_entries[1][2] > 0
    /\ srt_entries[2][2] > srt_entries[2][1]

\* a text that survives the round trip: not empty, no line break, no
\* whitespace at its end
CleanText(x) ==
    /\ x # <<>>
    /\ ~IsSpace(x[Len(x)])
    /\ \A k \in 1..Len(x) : ~IsLineBreak(x[k])

HasQuote(x) == \E k \in 1..Len(x) : x[k] = "\""

\* x with a backslash before each double quote
RECURSIVE Escaped(_)
Escaped(x) ==
    IF x = <<>> THEN <<>>
    ELSE (IF Head(x) = "\"" THEN <<"\\", "\"">> ELSE <<Head(x)>>) \o Escaped(Tail(x))

\* t cut to whole milliseconds, within one day
ShownTime(t) == (t % (86400 * UnitsPerSec)) - (t % UnitsPerMs)

\* C2 as stated: decoding the encoded entries gives back the same (start, end,
\* text) triples, in order, for texts without a double quote, and the text with
\* a backslash before each quote otherwise.
RoundTripExact ==
    pc = "decoded" =>
        /\ Len(segments) = Len(srt_entries)
        /\ \A k \in 1..Len(srt_entries) :
             k <= Len(segments) =>
                /\ segments[k].start = srt_entries[k][1]
                /\ segments[k].end = srt_entries[k][2]
                /\ segments[k].text = Escaped(srt_entries[k][3])

\* C2 amended: when every text is non-empty, has no line break and does not end
\* with whitespace, decoding gives one segment per entry, in order, whose text
\* is the entry's with a backslash before each double quote and whose start and
\* end are the entry's cut to whole milliseconds, modulo 24 hours.
RoundTripUpToMilliseconds ==
    (pc = "decoded" /\ \A k \in 1..Len(srt_entries) : CleanText(srt_entries[k][3])) =>
        /\ Len(segments) = Len(srt_entries)
        /\ \A k \in 1..Len(srt_entries) :
             /\ segments[k].start = ShownTime(srt_entries[k][1])
             /\ segments[k].end = ShownTime(srt_entries[k][2])
             /\ segments[k].text = Escaped(srt_entries[k][3])
             /\ ~HasQuote(srt_entries[k][3]) => segments[k].text = srt_entries[k][3]

\* C2 witness: two clean entries decoded, one quoted, one at a sixteenth of a second
RoundTripDecoded ==
    /\ pc = "decoded"
    /\ Len(srt_entries) = 2
    /\ Len(segments) = 2
    /\ HasQuote(srt_entries[1][3])
    /\ CleanText(srt_entries[1][3])
    /\ srt_entries[2][3] = <<"a", " ", "a">>
    /\ srt_entries[2][1] % UnitsPerMs # 0

\* C3: the manifest lists the audio files in ascending numeric order of their
\* chunk index, whatever order the directory was listed in.
ManifestInNumericOrder ==
    pc = "merge_ffmpeg" =>
        Content(file_list) =
            [k \in 1..Cardinality(wav) |-> audio_file(Ascending(wav)[k])]

\* C3 witness: the artifacts 1, 2 and 10 are in the manifest in that order
ManifestOneTwoTen ==
    /\ pc = "merge_ffmpeg"
    /\ wav = {1, 2, 10}
    /\ Content(file_list) = <<audio_file(1), audio_file(2), audio_file(10)>>

\* C4 as stated: with no audio artifact in the directory, merge_audio_files
\* ends the process; the run does not go on past it.
EmptyMergeTerminates ==
    (wav = {} /\ pc # "merge") => Ended

\* C5 as stated: with fewer images than subtitle segments the run aborts
\* before any encoder call has been made for the script.
TooFewImagesNoEncoderCall ==
    (segments # <<>> /\ Len(segments) > images) =>
        /\ status = "exit1"
        /\ \A c \in calls : c[1] = script => c[2] \notin EncoderKinds

\* C5 amended: with fewer images than subtitle segments the run aborts
\* (exit 1) in process_video before any encoder call of the video assembly has
\* been made for the script; with no image at all it aborts before
\* process_video is entered.  The encoder call of merge_audio_files has
\* already been made by then.
TooFewImagesNoVideoEncoding ==
    /\ (segments # <<>> /\ Len(segments) > images) =>
          /\ status = "exit1"
          /\ pc = "pv_parse"
          /\ \A c \in calls : c[1] = script => c[2] \notin VideoKinds
          /\ Call("ffmpeg_concat_audio", 0) \in calls
    /\ images = 0 =>
          /\ \A c \in calls : c[2] \notin VideoKinds
          /\ pc \notin {"pv_parse", "pv_segment", "pv_concat", "pv_mix", "pv_burn",
                        "move_landscape", "move_vertical"}

\* C5 witness: two segments, one image, the run ended in process_video
TooFewImagesAborted ==
    /\ status = "exit1"
    /\ pc = "pv_parse"
    /\ Len(segments) = 2
    /\ images = 1

\* C6: a script with no chunk is skipped: process_script returns without any
\* call of the TTS backend, the prober or the encoder and without ending the
\* run, and main goes on with the next script of the batch; the run never ends
\* abnormally on a script without chunks.
EmptyScriptSkipped ==
    /\ [][ /\ (pc = "process_script" /\ lines' = <<>>) =>
                (pc' = "next_script" /\ status' = "running" /\ calls' = calls
                 /\ files' = files /\ script' = script)
           /\ (pc = "next_script" /\ script < numScripts) =>
                (pc' = "process_script" /\ script' = script + 1
                 /\ status' = "running") ]_vars
    /\ [](Ended /\ script >= 1 => lines # <<>>)

\* C6 witness: the first script was skipped without a call and the second one
\* has been processed to the end
SecondScriptDoneAfterSkip ==
    /\ script = 2
    /\ pc = "next_script"
    /\ vertical_dest(2) \in files
    /\ \A c \in calls : c[1] # 1

\* C7: a failing TTS call for chunk i ends the run there: the step that leaves
\* no audio for the chunk stops the process, nothing is synthesized, probed or
\* encoded afterwards, no subtitle track, narration track or video is written
\* for the script, and no later script is touched.
TtsFailureEndsRun ==
    /\ [][ /\ status = "running"
           /\ (pc = "tts" /\ i \notin wav') =>
                (status' = "crashed" /\ pc' = "tts" /\ i' = i /\ script' = script)
           /\ pc \in {"tts", "probe"} =>
                (generated_srt' = generated_srt /\ final_audio' = final_audio
                 /\ files' = files) ]_vars
    /\ []((status = "crashed" /\ pc = "tts") =>
            /\ i \notin wav
            /\ \A c \in calls :
                 /\ c[1] <= script
                 /\ c[1] = script =>
                      /\ c[2] \in {"audio_query", "synthesis", "ffprobe"}
                      /\ c[3] <= i
                      /\ c[2] = "ffprobe" => c[3] < i
            /\ landscape_dest(script) \notin files
            /\ vertical_dest(script) \notin files)

\* C7 witness: the TTS call failed at the second chunk of the first of two scripts
TtsFailedAtSecondChunk ==
    /\ status = "crashed"
    /\ pc = "tts"
    /\ i = 1
    /\ script = 1
    /\ numScripts = 2
    /\ 0 \in wav

\* C8: a failed duration probe does not end the run: the chunk's entry has
\* start = end at the clock value reached before it, and every later entry
\* starts where its predecessor ends.
ProbeFailureZeroLength ==
    /\ pc = "probe" => status = "running"
    /\ \A k \in 1..Len(probe_log) :
         probe_log[k] = <<>> =>
            /\ srt_entries[k][2] = srt_entries[k][1]
            /\ srt_entries[k][1] = (IF k = 1 THEN 0 ELSE srt_entries[k - 1][2])
            /\ \A m \in (k + 1)..Len(srt_entries) :
                 srt_entries[m][1] = srt_entries[m - 1][2]

\* C8 witness: the probe failed for the first chunk, the second was measured
\* and the run went on
ProbeFailedThenMeasured ==
    /\ status = "running"
    /\ pc = "merge"
    /\ Len(probe_log) = 2
    /\ probe_log[1] = <<>>
    /\ probe_log[2] # <<>>

\* C9: when the run has ended on a failure, neither destination directory
\* holds an output of the script being processed; outside the step between the
\* two moves a script has both final outputs or none.
NoPartialFinalOutput ==
    /\ (Ended /\ script >= 1) =>
          /\ landscape_dest(script) \notin files
          /\ vertical_dest(script) \notin files
    /\ pc # "move_vertical" =>
          \A k \in 1..numScripts :
             landscape_dest(k) \in files <=> vertical_dest(k) \in files

\* C9 witness: the last encoder call of the second script's vertical video
\* failed, after the first script's outputs were delivered
FailedAtLastStepOfSecondScript ==
    /\ status = "exit1"
    /\ pc = "pv_burn"
    /\ vertical
    /\ script = 2
    /\ landscape_output_temp(script) \in files
    /\ landscape_dest(1) \in files

AfterSaveSrt ==
    pc \in {"merge", "merge_ffmpeg", "images", "pv_parse", "pv_segment", "pv_concat",
            "pv_mix", "pv_burn", "move_landscape", "move_vertical"}

\* n written with two and with three decimal digits
TwoDigits(n) == <<DigitChars[(n \div 10) + 1], DigitChars[(n % 10) + 1]>>
ThreeDigits(n) == <<DigitChars[(n \div 100) + 1]>> \o TwoDigits(n % 100)

\* HH:MM:SS,mmm of a time below 100 hours: the whole seconds, then the
\* remainder in milliseconds, cut
ClockText(t) ==
    LET whole == t \div UnitsPerSec
        rest == t - whole * UnitsPerSec
        ms == CHOOSE m \in 0..999 :
                 m * UnitsPerSec <= rest * 1000 /\ rest * 1000 < (m + 1) * UnitsPerSec
    IN TwoDigits(whole \div 3600) \o <<":">> \o TwoDigits((whole % 3600) \div 60)
       \o <<":">> \o TwoDigits(whole % 60) \o <<",">> \o ThreeDigits(ms)

\* the four lines of entry k: index, timing, text, blank
RenderedLines(k, entry) ==
    << <<DigitChars[k + 1]>>,
       ClockText(entry[1]) \o <<" ", "-", "-", ">", " ">> \o ClockText(entry[2]),
       entry[3],
       <<>> >>

RECURSIVE RenderedFrom(_, _)
RenderedFrom(entries, k) ==
    IF k > Len(entries) THEN <<>>
    ELSE RenderedLines(k, entries[k]) \o RenderedFrom(entries, k + 1)

\* 00:00:00,000 --> 00:00:01,500 and 00:00:01,500 --> 00:00:03,500
FirstTimingLine ==
    <<"0", "0", ":", "0", "0", ":", "0", "0", ",", "0", "0", "0", " ", "-", "-", ">", " ",
      "0", "0", ":", "0", "0", ":", "0", "1", ",", "5", "0", "0">>
SecondTimingLine ==
    <<"0", "0", ":", "0", "0", ":", "0", "1", ",", "5", "0", "0", " ", "-", "-", ">", " ",
      "0", "0", ":", "0", "0", ":", "0", "3", ",", "5", "0", "0">>

\* the probe printed 1.5 for the first of two chunks and 2.0 for the second
MeasuredOneAndAHalfThenTwo ==
    /\ Len(lines) = 2
    /\ probe_log = << <<(3 * UnitsPerSec) \div 2>>, <<2 * UnitsPerSec>> >>

\* C11: the subtitle file written by save_srt holds, for entry k counted from 1,
\* four lines: the index k, the timing line HH:MM:SS,mmm --> HH:MM:SS,mmm
\* (zero-padded whole seconds, milliseconds cut to three digits), the text and
\* a blank line; for two chunks measured at 1.5 s and 2.0 s the entries are
\* (0, 1.5, first chunk), (1.5, 3.5, second chunk) and the timing lines are
\* 00:00:00,000 --> 00:00:01,500 and 00:00:01,500 --> 00:00:03,500.
SrtRendering ==
    AfterSaveSrt =>
        LET written == SplitChar(Content(generated_srt), "\n")
        IN /\ written = RenderedFrom(srt_entries, 1) \o << <<>> >>
           /\ MeasuredOneAndAHalfThenTwo =>
                 /\ srt_entries =
                       << <<0, (3 * UnitsPerSec) \div 2, lines[1]>>,
                          <<(3 * UnitsPerSec) \div 2, (7 * UnitsPerSec) \div 2, lines[2]>> >>
                 /\ written[1] = <<"1">>
                 /\ written[2] = FirstTimingLine
                 /\ written[3] = lines[1]
                 /\ written[4] = <<>>
                 /\ written[5] = <<"2">>
                 /\ written[6] = SecondTimingLine
                 /\ written[7] = lines[2]
                 /\ written[8] = <<>>

\* C11 witness: two chunks measured at 1.5 s and 2.0 s, the subtitle file saved
ScenarioSaved ==
    /\ pc = "merge"
    /\ status = "running"
    /\ MeasuredOneAndAHalfThenTwo
    /\ generated_srt # NoFile

HasGlyph(x) == \E k \in 1..Len(x) : x[k] = "SHEEP"
GlyphCount(x) == Cardinality({k \in 1..Len(x) : x[k] = "SHEEP"})

\* C12: for every chunk the subtitle entry holds the chunk as read from the
\* script, glyph included, while the text handed to generate_audio_chunk
\* (written to texts/ and posted to the TTS backend) is the chunk with every
\* glyph replaced by its reading; a chunk without the glyph is sent as it is.
SubstitutionOnlyForSynthesis ==
    lines # <<>> =>
        /\ \A k \in 1..Len(srt_entries) :
             /\ srt_entries[k][3] = lines[k]
             /\ \E e \in texts : e[1] = k - 1
        /\ \A e \in texts :
             /\ e[1] < Len(lines)
             /\ LET chunk == lines[e[1] + 1]
                    sent == e[2]
                IN /\ ~HasGlyph(sent)
                   /\ ~HasGlyph(chunk) => sent = chunk
                   /\ HasGlyph(chunk) =>
                         /\ sent # chunk
                         /\ Len(sent) = Len(chunk) + 2 * GlyphCount(chunk)
                   /\ chunk = <<"SHEEP", "\"">> => sent = <<"hi", "tsu", "ji", "\"">>

\* C12 witness: a chunk without the glyph and one with it have been
\* synthesized; the entry of the second still shows the glyph
GlyphSpokenAndShown ==
    /\ pc = "srt"
    /\ Len(srt_entries) = 2
    /\ ~HasGlyph(srt_entries[1][3])
    /\ <<0, srt_entries[1][3]>> \in texts
    /\ HasGlyph(srt_entries[2][3])
    /\ <<1, <<"hi", "tsu", "ji", "\"">> >> \in texts

\* the audio artifacts of chunks 0 .. n-1, in chunk order
ChunkAudio(n) == [k \in 1..n |-> audio_file(k - 1)]

\* C13: in a batch, the manifest written for a script with n chunks lists
\* exactly audio_0 .. audio_{n-1}, in chunk order, whatever the scripts before
\* it left behind; the narration track concatenated from it has as many parts
\* as there are subtitle entries.
ManifestOfCurrentScript ==
    /\ pc \in {"merge", "merge_ffmpeg"} => wav = 0..(Len(lines) - 1)
    /\ pc = "merge_ffmpeg" =>
          /\ file_list # NoFile
          /\ Content(file_list) = ChunkAudio(Len(lines))
    /\ (AfterSaveSrt /\ pc \notin {"merge", "merge_ffmpeg"}) =>
          /\ final_audio = File(ChunkAudio(Len(lines)))
          /\ Len(Content(final_audio)) = Len(srt_entries)

\* C13 witness: the manifest of a one-chunk script, written after a two-chunk
\* script has been processed to the end
ShorterScriptAfterLonger ==
    /\ script = 2
    /\ pc = "merge_ffmpeg"
    /\ Len(lines) = 1
    /\ <<1, "synthesis", 1>> \in calls
    /\ vertical_dest(1) \in files
    /\ Content(file_list) = <<audio_file(0)>>

====
